---- MODULE Spec2Model ----
(***************************************************************************)
(* A model of metano's TransporterParser (src/src/transporterparser.py):   *)
(* the line parser parse(), clear(), and the grouping split_by_type().     *)
(*                                                                         *)
(* Text is modelled as sequences of one-character strings, so that the two *)
(* regular expressions of the class are matched character by character.    *)
(* Python's None is the empty tuple <<>> and a present value x is <<x>>.   *)
(* A float is the exact decimal [m, e] = m / 10^e in lowest terms of 10;   *)
(* with the few digits of the lines tried here this is one-to-one with the doubles      *)
(* Python's float() returns.                                               *)
(***************************************************************************)
EXTENDS Integers, Sequences, FiniteSets

VARIABLES
    transporters,   \* self.transporters
    call,           \* the last call on the instance and its arguments
    result,         \* what the last call returned or raised
    before,         \* self.transporters when the last call started
    expected,       \* concatenation of the fresh-instance results of the
                    \* files parsed since the last clear()
    clean,          \* no parse() has failed since the last clear()
    pending         \* the input of the single-call specifications

vars == <<transporters, call, result, before, expected, clean, pending>>

----------------------------------------------------------------------------
\* Bounds of the model.

\* Lines per file.
MaxLines == 2
\* Records self.transporters may hold before a call is no longer taken.
MaxRecords == 3
\* Pieces of a line in the exhaustive single-line universe.
MaxPieces == 5
\* Entries of a caller-supplied list in the exhaustive split universe.
MaxEntries == 3

----------------------------------------------------------------------------
\* Optional values.

None == <<>>
Some(x) == <<x>>

Max(S) == CHOOSE x \in S : \A y \in S : y <= x

\* s[a..b], empty when the range is empty or leaves s.
Sub(s, a, b) == IF a <= b /\ 1 <= a /\ b <= Len(s) THEN SubSeq(s, a, b) ELSE <<>>

----------------------------------------------------------------------------
\* Character classes of Python's re and str.strip().

\* \s
IsSpace(c) == c \in {" ", "\t", "\n", "\r"}
\* \S
NonSpace(c) == ~IsSpace(c)
\* \d
IsDigit(c) == c \in {"0", "1", "2", "3", "4", "5", "6", "7", "8", "9"}
\* [\d\.]
DigitDot(c) == IsDigit(c) \/ c = "."
\* [^_]
NotUnderscore(c) == c # "_"

\* A greedy starred class X* tried at position i of s: the position after the
\* longest run of characters of the class.
InClass(cls, c) ==
    CASE cls = "\\s" -> IsSpace(c)
      [] cls = "\\S" -> NonSpace(c)
      [] cls = "[\\d\\.]" -> DigitDot(c)
      [] cls = "[^_]" -> NotUnderscore(c)

RECURSIVE Span(_, _, _)
Span(cls, s, i) ==
    IF i <= Len(s) /\ InClass(cls, s[i]) THEN Span(cls, s, i + 1) ELSE i

\* str.strip(): leading and trailing whitespace removed.
RECURSIVE LStrip(_)
LStrip(s) == IF s # <<>> /\ IsSpace(Head(s)) THEN LStrip(Tail(s)) ELSE s

RECURSIVE RStrip(_)
RStrip(s) ==
    IF s # <<>> /\ IsSpace(s[Len(s)]) THEN RStrip(Sub(s, 1, Len(s) - 1)) ELSE s

strip(s) == RStrip(LStrip(s))

----------------------------------------------------------------------------
\* line_pattern.match(line):  (\S*)(?:\s*([\d\.]*))?(?:\s*co\((\S*)\))?
\* A match object [g1, g2, g3], or NoMatch (Python's None).
NoMatch == [matched |-> FALSE, g1 |-> <<>>, g2 |-> None, g3 |-> None]

\* Variant: the co(...) group's \S* written lazy (\S*?), which stops at the
\* first ")" instead of the last.
line_pattern_match_lazy_co(line) ==
    LET e1 == Span("\\S", line, 1)
        w2 == Span("\\s", line, e1)
        e2 == Span("[\\d\\.]", line, w2)
        w3 == Span("\\s", line, e2)
        isco == Sub(line, w3, w3 + 2) = <<"c", "o", "(">>
        r3 == Span("\\S", line, w3 + 3)
        closes == {t \in (w3 + 3)..(r3 - 1) : line[t] = ")"}
    IN  [matched |-> TRUE,
         g1 |-> Sub(line, 1, e1 - 1),
         g2 |-> Some(Sub(line, w2, e2 - 1)),
         g3 |-> IF isco /\ closes # {}
                THEN Some(Sub(line, w3 + 3,
                              (CHOOSE t \in closes : \A u \in closes : t <= u) - 1))
                ELSE None]

\* Variant: the pattern anchored at the end of the line ($), so that a line
\* with anything after the three fields does not match.
line_pattern_match_anchored(line) ==
    LET e1 == Span("\\S", line, 1)
        w2 == Span("\\s", line, e1)
        e2 == Span("[\\d\\.]", line, w2)
        w3 == Span("\\s", line, e2)
        isco == Sub(line, w3, w3 + 2) = <<"c", "o", "(">>
        r3 == Span("\\S", line, w3 + 3)
        closes == {t \in (w3 + 3)..(r3 - 1) : line[t] = ")"}
    IN  IF isco /\ Len(line) \in closes
        THEN [matched |-> TRUE,
              g1 |-> Sub(line, 1, e1 - 1),
              g2 |-> Some(Sub(line, w2, e2 - 1)),
              g3 |-> Some(Sub(line, w3 + 3, Len(line) - 1))]
        ELSE IF e2 = Len(line) + 1
        THEN [matched |-> TRUE,
              g1 |-> Sub(line, 1, e1 - 1),
              g2 |-> Some(Sub(line, w2, e2 - 1)),
              g3 |-> None]
        ELSE [matched |-> FALSE, g1 |-> <<>>, g2 |-> None, g3 |-> None]

\* Every piece of the pattern may match the empty string and match() does not
\* anchor the end, so the first (greediest) attempt succeeds: group 1 is the
\* longest run of non-whitespace, group 2 the longest run of digits and dots
\* after the whitespace that follows, and the co(...) group takes part only
\* when "co(" comes next and a ")" closes it within the same run of
\* non-whitespace; its \S* gives back to the last such ")".
line_pattern_match(line) ==
    LET e1 == Span("\\S", line, 1)
        w2 == Span("\\s", line, e1)
        e2 == Span("[\\d\\.]", line, w2)
        w3 == Span("\\s", line, e2)
        isco == Sub(line, w3, w3 + 2) = <<"c", "o", "(">>
        r3 == Span("\\S", line, w3 + 3)
        closes == {t \in (w3 + 3)..(r3 - 1) : line[t] = ")"}
    IN  [matched |-> TRUE,
         g1 |-> Sub(line, 1, e1 - 1),
         g2 |-> Some(Sub(line, w2, e2 - 1)),
         g3 |-> IF isco /\ closes # {}
                THEN Some(Sub(line, w3 + 3, Max(closes) - 1))
                ELSE None]

----------------------------------------------------------------------------
\* float(transfac) for a token of digits and dots.

DigitVal(c) ==
    CASE c = "0" -> 0 [] c = "1" -> 1 [] c = "2" -> 2 [] c = "3" -> 3
      [] c = "4" -> 4 [] c = "5" -> 5 [] c = "6" -> 6 [] c = "7" -> 7
      [] c = "8" -> 8 [] c = "9" -> 9

RECURSIVE DigitsVal(_)
DigitsVal(ds) ==
    IF ds = <<>> THEN 0
    ELSE 10 * DigitsVal(Sub(ds, 1, Len(ds) - 1)) + DigitVal(ds[Len(ds)])

\* m / 10^e with trailing zeros of the fraction dropped: 1.50 = 1.5, 2.0 = 2.
RECURSIVE Normal(_, _)
Normal(m, e) ==
    IF e > 0 /\ m % 10 = 0 THEN Normal(m \div 10, e - 1) ELSE [m |-> m, e |-> e]

\* float() takes digits with at most one dot and at least one digit ("1.5",
\* "1.", ".5", "007"); "", ".", "1.2.3" raise ValueError.
FloatOk(tok) ==
    /\ Cardinality({i \in 1..Len(tok) : tok[i] = "."}) <= 1
    /\ \E i \in 1..Len(tok) : IsDigit(tok[i])
    /\ \A i \in 1..Len(tok) : DigitDot(tok[i])

FloatOf(tok) ==
    LET dots == {i \in 1..Len(tok) : tok[i] = "."}
        d == IF dots = {} THEN Len(tok) + 1 ELSE Max(dots)
        ip == Sub(tok, 1, d - 1)
        fp == Sub(tok, d + 1, Len(tok))
    IN  Normal(DigitsVal(ip \o fp), Len(fp))

----------------------------------------------------------------------------
\* parse(filename): the loop over the lines of the file.

\* One pass of the loop body on `line`, line_no already incremented.  Gives
\* the list after the pass and the exception the body raised, if any.
parse_line(list, line, line_no) ==
    LET stripped == strip(line)
        m == line_pattern_match(stripped)
        transname == m.g1
        transfac == m.g2
        cotrans == m.g3
    IN  IF stripped = <<>> \/ stripped[1] = "#"
        THEN [transporters |-> list, exc |-> "none", line_no |-> line_no,
              what |-> <<>>]
        ELSE IF ~m.matched
        THEN \* m is None: m.group raises AttributeError
             [transporters |-> list, exc |-> "SyntaxError",
              line_no |-> line_no, what |-> <<>>]
        ELSE IF transfac = None
        THEN \* float(None) raises TypeError, which parse does not catch
             [transporters |-> list, exc |-> "TypeError",
              line_no |-> line_no, what |-> <<>>]
        ELSE IF transfac[1] = <<>>
        THEN [transporters |-> Append(list, <<transname, None, cotrans>>),
              exc |-> "none", line_no |-> line_no, what |-> <<>>]
        ELSE IF ~FloatOk(transfac[1])
        THEN [transporters |-> list, exc |-> "ValueError",
              line_no |-> line_no, what |-> transfac[1]]
        ELSE [transporters |-> Append(list,
                  <<transname, Some(FloatOf(transfac[1])), cotrans>>),
              exc |-> "none", line_no |-> line_no, what |-> <<>>]

\* Variant: line_no += 1 moved below the blank/comment test, so that skipped
\* lines are not counted.
count_line_after_skip(line_no, line) ==
    IF strip(line) = <<>> \/ strip(line)[1] = "#" THEN line_no ELSE line_no + 1

\* line_no += 1: the first statement of the loop body, run for every line of
\* the file whatever the line holds.
count_line(line_no, line) == line_no + 1

\* Variant: the exception caught inside the loop, which goes on with the
\* lines after the failing one and reports the first failure at the end.
RECURSIVE parse_loop_keep_going(_, _, _)
parse_loop_keep_going(list, lines, line_no) ==
    IF lines = <<>>
    THEN [transporters |-> list, exc |-> "none", line_no |-> line_no,
          what |-> <<>>]
    ELSE LET r == parse_line(list, Head(lines), count_line(line_no, Head(lines)))
             t == parse_loop_keep_going(r.transporters, Tail(lines), r.line_no)
         IN  IF r.exc # "none" THEN [r EXCEPT !.transporters = t.transporters]
             ELSE t

RECURSIVE parse_loop(_, _, _)
parse_loop(list, lines, line_no) ==
    IF lines = <<>>
    THEN [transporters |-> list, exc |-> "none", line_no |-> line_no,
          what |-> <<>>]
    ELSE LET r == parse_line(list, Head(lines), count_line(line_no, Head(lines)))
         IN  IF r.exc # "none" THEN r
             ELSE parse_loop(r.transporters, Tail(lines), r.line_no)

\* Variant: parse() starting from an empty list of its own.
parse_file_fresh(list, file) == parse_loop(<<>>, file, 0)

\* The whole call on an instance whose list is `list`.
parse_file(list, file) == parse_loop(list, file, 0)

----------------------------------------------------------------------------
\* name_pattern.match(name):  [^_]*_([^_]*)_

\* Variant: .*_(.*)_ , whose greedy .* leaves group 1 between the last two
\* underscores.
name_pattern_match_greedy(name) ==
    LET us == {i \in 1..Len(name) : name[i] = "_"}
        u2 == Max(us)
        u1 == Max(us \ {u2})
    IN  IF Cardinality(us) >= 2
        THEN [matched |-> TRUE, g1 |-> Sub(name, u1 + 1, u2 - 1),
              g2 |-> None, g3 |-> None]
        ELSE [matched |-> FALSE, g1 |-> <<>>, g2 |-> None, g3 |-> None]

\* [^_]* stops at the first "_" and cannot give back to find another, so the
\* pattern matches exactly when the name holds two underscores; group 1 is the
\* text between the first and the second.
name_pattern_match(name) ==
    LET e1 == Span("[^_]", name, 1)
        e2 == Span("[^_]", name, e1 + 1)
    IN  IF e1 <= Len(name) /\ e2 <= Len(name)
        THEN [matched |-> TRUE, g1 |-> Sub(name, e1 + 1, e2 - 1),
              g2 |-> None, g3 |-> None]
        ELSE NoMatch

----------------------------------------------------------------------------
\* split_by_type(l): the loop over the entries of l.

\* dict_of_types[typ] = n added to the dictionary d.
dict_put(d, typ, n) ==
    [t \in DOMAIN d \cup {typ} |-> IF t = typ THEN n ELSE d[t]]

\* Variant: a record of a type seen before is put at the front of its group.
split_entry_prepend(st, i) ==
    LET entry == st.l[i]
        m == name_pattern_match(entry[1])
        typ == m.g1
        item == <<typ>> \o entry
    IN  IF ~m.matched
        THEN [st EXCEPT !.exc = "SyntaxError", !.what = entry[1]]
        ELSE IF typ \notin DOMAIN st.dict_of_types
        THEN [st EXCEPT
                 !.dict_of_types = dict_put(@, typ, Len(st.list_of_lists)),
                 !.list_of_lists = Append(@, <<item>>)]
        ELSE [st EXCEPT
                 !.list_of_lists[st.dict_of_types[typ] + 1] = <<item>> \o @]

\* Variant: a record whose name does not match is left out without an error.
split_entry_skip(st, i) ==
    LET entry == st.l[i]
        m == name_pattern_match(entry[1])
        typ == m.g1
        item == <<typ>> \o entry
    IN  IF ~m.matched
        THEN st
        ELSE IF typ \notin DOMAIN st.dict_of_types
        THEN [st EXCEPT
                 !.dict_of_types = dict_put(@, typ, Len(st.list_of_lists)),
                 !.list_of_lists = Append(@, <<item>>)]
        ELSE [st EXCEPT
                 !.list_of_lists[st.dict_of_types[typ] + 1] = Append(@, item)]

\* Variant: the typed record also written back into the input list
\* (l[i] = (typ,) + entry).
split_entry_inplace(st, i) ==
    LET entry == st.l[i]
        m == name_pattern_match(entry[1])
        typ == m.g1
        item == <<typ>> \o entry
    IN  IF ~m.matched
        THEN [st EXCEPT !.exc = "SyntaxError", !.what = entry[1]]
        ELSE IF typ \notin DOMAIN st.dict_of_types
        THEN [st EXCEPT
                 !.l[i] = item,
                 !.dict_of_types = dict_put(@, typ, Len(st.list_of_lists)),
                 !.list_of_lists = Append(@, <<item>>)]
        ELSE [st EXCEPT
                 !.l[i] = item,
                 !.list_of_lists[st.dict_of_types[typ] + 1] = Append(@, item)]

\* One pass of the loop body on l[i].  st holds l, dict_of_types (type ->
\* 0-based index in list_of_lists) and list_of_lists.
split_entry(st, i) ==
    LET entry == st.l[i]
        m == name_pattern_match(entry[1])
        typ == m.g1
        item == <<typ>> \o entry
    IN  IF ~m.matched
        THEN \* m is None: AttributeError, re-raised as SyntaxError
             [st EXCEPT !.exc = "SyntaxError", !.what = entry[1]]
        ELSE IF typ \notin DOMAIN st.dict_of_types
        THEN [st EXCEPT
                 !.dict_of_types = dict_put(@, typ, Len(st.list_of_lists)),
                 !.list_of_lists = Append(@, <<item>>)]
        ELSE [st EXCEPT
                 !.list_of_lists[st.dict_of_types[typ] + 1] = Append(@, item)]

RECURSIVE split_loop(_, _)
split_loop(st, i) ==
    IF i > Len(st.l) THEN st
    ELSE LET r == split_entry(st, i)
         IN  IF r.exc # "none" THEN r ELSE split_loop(r, i + 1)

\* The whole call on the list object l.
split_list(l) ==
    split_loop([l |-> l, dict_of_types |-> <<>>, list_of_lists |-> <<>>,
                exc |-> "none", what |-> <<>>], 1)

----------------------------------------------------------------------------
\* The inputs the calls are tried on.

Seqs(S, n) == UNION {[1..k -> S] : k \in 0..n}

NL == <<"\n">>
Str_trans_c_glu == <<"t", "r", "a", "n", "s", "_", "c", "_", "g", "l", "u">>
Str_trans_n_nh3 == <<"t", "r", "a", "n", "s", "_", "n", "_", "n", "h", "3">>
Str_abc == <<"a", "b", "c">>

\* trans_c_glu 1.5 co(trans_n_nh3)
LineFull ==
    Str_trans_c_glu \o <<" ", "1", ".", "5", " ", "c", "o", "(">>
        \o Str_trans_n_nh3 \o <<")">> \o NL
\* trans_n_nh3
LineNameOnly == Str_trans_n_nh3 \o NL
\* trans_c_glu abc
LineAbc == Str_trans_c_glu \o <<" ">> \o Str_abc \o NL
\* t_c_x 1.2.3
LineBadFloat == <<"t", "_", "c", "_", "x", " ", "1", ".", "2", ".", "3">> \o NL
\* a blank line
LineBlank == <<" ">> \o NL
\* # comment
LineComment == <<" ", "#", " ", "c", " ", "1", ".", ".">> \o NL

\* noU 2   (a name split_by_type cannot classify)
LineNoUnderscore == <<" ", "n", "o", "U", "\t", "2", " ">> \o NL

\* The lines of the files of the stateful specification.
FileLines ==
    {LineFull, LineNameOnly, LineBadFloat, LineBlank, LineComment,
     LineNoUnderscore}

Files == Seqs(FileLines, MaxLines)

\* The records those lines give, and the lists a caller hands to
\* split_by_type in the stateful specification.
RecGlu == <<Str_trans_c_glu, Some([m |-> 15, e |-> 1]), Some(Str_trans_n_nh3)>>
RecNh3 == <<Str_trans_n_nh3, None, None>>
RecNoUnderscore == <<<<"n", "o", "U">>, Some([m |-> 2, e |-> 0]), None>>

CallerLists == Seqs({RecGlu, RecNoUnderscore}, 2)

----------------------------------------------------------------------------
\* The instance.

NoCall == [op |-> "new", file |-> <<>>, l |-> None]
NoResult ==
    [exc |-> "none", ret |-> None, line_no |-> 0, what |-> <<>>, l |-> None]

\* self.transporters = []
empty_list == <<>>

\* __init__
Init ==
    /\ transporters = empty_list
    /\ call = NoCall
    /\ result = NoResult
    /\ before = <<>>
    /\ expected = <<>>
    /\ clean = TRUE
    /\ pending = <<>>

clear ==
    /\ transporters' = empty_list
    /\ call' = [NoCall EXCEPT !.op = "clear"]
    /\ result' = NoResult
    /\ before' = transporters
    /\ expected' = <<>>
    /\ clean' = TRUE
    /\ UNCHANGED pending

\* (r is bound with \E so that the call is evaluated once.)
parse(file) ==
    /\ Len(transporters) + Len(file) <= MaxRecords
    /\ \E r \in {parse_file(transporters, file)} :
        /\ transporters' = r.transporters
        /\ call' = [NoCall EXCEPT !.op = "parse", !.file = file]
        /\ result' = [exc |-> r.exc,
                      ret |-> IF r.exc = "none" THEN Some(r.transporters)
                              ELSE None,
                      line_no |-> r.line_no, what |-> r.what, l |-> None]
        /\ before' = transporters
        /\ expected' = expected \o parse_file(empty_list, file).transporters
        /\ clean' = (clean /\ r.exc = "none")
        /\ UNCHANGED pending

\* l is None (the argument omitted: the instance's own list) or Some(list).
\* With l omitted the loop runs on self.transporters itself, not on a copy.
split_by_type(l) ==
    \E r \in {split_list(IF l = None THEN transporters ELSE l[1])} :
        /\ transporters' = IF l = None THEN r.l ELSE transporters
        /\ call' = [NoCall EXCEPT !.op = "split", !.l = l]
        /\ result' = [exc |-> r.exc,
                      ret |-> IF r.exc = "none" THEN Some(r.list_of_lists)
                              ELSE None,
                      line_no |-> 0, what |-> r.what, l |-> Some(r.l)]
        /\ before' = transporters
        /\ UNCHANGED <<expected, clean, pending>>

ParseAny == \E file \in Files : parse(file)
SplitOwn == split_by_type(None)
SplitGiven == \E l \in CallerLists : split_by_type(Some(l))

Next == clear \/ ParseAny \/ SplitOwn \/ SplitGiven

Spec == Init /\ [][Next]_vars

----------------------------------------------------------------------------
\* Single calls on a fresh instance, over exhaustive universes of inputs.

RECURSIVE Flatten(_)
Flatten(ss) == IF ss = <<>> THEN <<>> ELSE Head(ss) \o Flatten(Tail(ss))

\* Every line of up to MaxPieces of these pieces.
LinePieces ==
    {<<" ">>, <<"#">>, <<"a">>, <<"1">>, <<".">>, <<"c", "o", "(">>, <<")">>}

PieceLines == {Flatten(ps) : ps \in Seqs(LinePieces, MaxPieces)}

\* Lines built as  <name> [<factor>] [co(<coname>)]  from their parts; a
\* factor is listed with the number it denotes.
WFNames ==
    {Str_trans_c_glu, <<"a">>, <<"1", ".", "5">>, <<"c", "o", "(", "x", ")">>,
     <<"x", "#">>}
WFFactors ==
    {[tok |-> <<"1", ".", "5">>, val |-> [m |-> 15, e |-> 1]],
     [tok |-> <<"1", ".", "5", "0">>, val |-> [m |-> 15, e |-> 1]],
     [tok |-> <<"2">>, val |-> [m |-> 2, e |-> 0]],
     [tok |-> <<"0", "0", "7">>, val |-> [m |-> 7, e |-> 0]],
     [tok |-> <<".", "5">>, val |-> [m |-> 5, e |-> 1]],
     [tok |-> <<"1", ".">>, val |-> [m |-> 1, e |-> 0]],
     [tok |-> <<"0">>, val |-> [m |-> 0, e |-> 0]]}
WFConames == {Str_trans_n_nh3, <<"x">>, <<"a", ")", "b">>, <<"(", "1", ")">>}
WFSeps == {<<" ">>, <<" ", "\t">>}
WFPads == {<<>>, <<" ">>}

WFParts ==
    [name : WFNames,
     fac : {None} \cup {Some(f) : f \in WFFactors},
     co : {None} \cup {Some(c) : c \in WFConames},
     sep : WFSeps,
     pad : WFPads]

WFLine(p) ==
    p.pad \o p.name
        \o (IF p.fac = None THEN <<>> ELSE p.sep \o p.fac[1].tok)
        \o (IF p.co = None THEN <<>>
            ELSE p.sep \o <<"c", "o", "(">> \o p.co[1] \o <<")">>)
        \o p.pad \o NL

\* A line to parse, with the parts it was built from when it was built.
LineInputs ==
    {[line |-> ln, wf |-> None] : ln \in PieceLines \cup FileLines \cup {LineAbc}}
        \cup {[line |-> WFLine(p), wf |-> Some(p)] : p \in WFParts}

InitLine ==
    /\ pending \in LineInputs
    /\ transporters = empty_list
    /\ call = NoCall
    /\ result = NoResult
    /\ before = <<>>
    /\ expected = <<>>
    /\ clean = TRUE

ParsePending == call.op = "new" /\ parse(<<pending.line>>)

SpecLine == InitLine /\ [][ParsePending]_vars

\* Every list of up to MaxEntries of these records.
SplitNames ==
    {<<"a", "_", "X", "_">>, <<"b", "_", "Y", "_", "c">>,
     <<"_", "X", "_", "Y", "_">>, <<"_", "_">>, <<"n", "o">>,
     <<"a", "_", "b">>}

SplitRecords ==
    {<<n, f, None>> : n \in SplitNames, f \in {None, Some([m |-> 15, e |-> 1])}}

SplitLists == Seqs(SplitRecords, MaxEntries)

InitSplit ==
    /\ pending \in SplitLists
    /\ transporters = empty_list
    /\ call = NoCall
    /\ result = NoResult
    /\ before = <<>>
    /\ expected = <<>>
    /\ clean = TRUE

SplitPending == call.op = "new" /\ split_by_type(Some(pending))

SpecSplit == InitSplit /\ [][SplitPending]_vars

----------------------------------------------------------------------------
\* What the properties below are stated with: the line and name grammars said
\* directly in terms of character positions, without the matchers above.

Min(S) == CHOOSE x \in S : \A y \in S : x <= y

\* Positions of the non-whitespace characters of a line.
Inked(line) == {i \in 1..Len(line) : ~IsSpace(line[i])}

\* A blank line, or one whose first non-whitespace character is #.
Skipped(line) == Inked(line) = {} \/ line[Min(Inked(line))] = "#"

\* Last position of the first whitespace-delimited token of a non-blank line.
FirstTokenEnd(line) ==
    LET a == Min(Inked(line))
        gaps == {i \in a..Len(line) : IsSpace(line[i])}
    IN  IF gaps = {} THEN Len(line) ELSE Min(gaps) - 1

FirstToken(line) == Sub(line, Min(Inked(line)), FirstTokenEnd(line))

\* The run of digits and dots that starts the second token of a non-blank
\* line; empty when there is no second token or it starts otherwise.
FactorToken(line) ==
    LET later == {i \in Inked(line) : i > FirstTokenEnd(line)}
        n == Min(later)
        ends == {j \in n..Len(line) : \A i \in n..j : DigitDot(line[i])}
    IN  IF later = {} \/ ends = {} THEN <<>> ELSE Sub(line, n, Max(ends))

Underscores(name) == {i \in 1..Len(name) : name[i] = "_"}

WellNamed(entry) == Cardinality(Underscores(entry[1])) >= 2

\* The text between the first and the second "_" of a name that has two.
TypeCode(name) ==
    LET u1 == Min(Underscores(name))
        u2 == Min(Underscores(name) \ {u1})
    IN  Sub(name, u1 + 1, u2 - 1)

\* A grouped record without its type code.
Untag(group) == [k \in 1..Len(group) |-> Tail(group[k])]

\* The list the last split_by_type call worked on.
SplitInput == IF call.l = None THEN before ELSE call.l[1]

----------------------------------------------------------------------------
\* C1: a line built as <name> [<factor>] [co(<coname>)] appends exactly one
\* record (name, factor, coname): the factor is the number the factor token
\* denotes when there is one and None otherwise, the cotransporter is coname
\* when there is a co(...) clause and None otherwise.
C1_WellFormedLineOneRecord ==
    (call.op = "parse" /\ pending.wf # None) =>
        LET p == pending.wf[1]
            rec == <<p.name,
                     IF p.fac = None THEN None ELSE Some(p.fac[1].val),
                     p.co>>
        IN  /\ result.exc = "none"
            /\ transporters = before \o <<rec>>
            /\ result.ret = Some(transporters)

C1_Witness ==
    /\ call.op = "parse"
    /\ pending.wf # None
    /\ pending.wf[1].name = Str_trans_c_glu
    /\ pending.wf[1].fac # None
    /\ pending.wf[1].fac[1].tok = <<"1", ".", "5">>
    /\ pending.wf[1].co = Some(Str_trans_n_nh3)
    /\ transporters
         = <<<<Str_trans_c_glu, Some([m |-> 15, e |-> 1]), Some(Str_trans_n_nh3)>>>>

\* C2: a file whose first line is "trans_c_glu abc" fails with ValueError
\* naming line 1 and token abc, and appends no record for that line.
C2_AbcLineRaisesValueError ==
    (call.op = "parse" /\ call.file # <<>> /\ call.file[1] = LineAbc) =>
        /\ result.exc = "ValueError"
        /\ result.line_no = 1
        /\ result.what = Str_abc
        /\ transporters = before

\* C3: blank and comment lines append no record (the records appended are as
\* many as the other lines read) and are counted: an error reports the
\* position in the file of the line that fails, which is the first line of the
\* file that fails when parsed alone.
C3_SkippedLinesCounted ==
    call.op = "parse" =>
        LET file == call.file
            read == IF result.exc = "none" THEN Len(file)
                    ELSE result.line_no - 1
        IN  /\ Len(transporters)
                 = Len(before)
                     + Cardinality({j \in 1..read : ~Skipped(file[j])})
            /\ result.exc # "none" =>
                 /\ result.line_no \in 1..Len(file)
                 /\ ~Skipped(file[result.line_no])
                 /\ parse_file(<<>>, <<file[result.line_no]>>).exc = result.exc
                 /\ \A j \in 1..(result.line_no - 1) :
                        parse_file(<<>>, <<file[j]>>).exc = "none"

C3_Witness ==
    /\ call.op = "parse"
    /\ Len(call.file) = 2
    /\ Skipped(call.file[1])
    /\ result.exc = "ValueError"
    /\ result.line_no = 2

\* C4: when line k is the first line whose factor token is non-empty and not
\* a float, parse raises ValueError with that token and line number k, the
\* list keeps what it held before the call followed by one record for each
\* valid line before k, in order, and nothing of line k or later is appended.
BadFactorLines(file) ==
    {k \in 1..Len(file) :
        /\ ~Skipped(file[k])
        /\ FactorToken(file[k]) # <<>>
        /\ ~FloatOk(FactorToken(file[k]))}

C4_FailFastNoRollback ==
    (call.op = "parse" /\ BadFactorLines(call.file) # {}) =>
        LET k == Min(BadFactorLines(call.file))
            valid == SelectSeq(Sub(call.file, 1, k - 1),
                               LAMBDA ln : ~Skipped(ln))
        IN  /\ result.exc = "ValueError"
            /\ result.what = FactorToken(call.file[k])
            /\ result.line_no = k
            /\ result.ret = None
            /\ Len(transporters) = Len(before) + Len(valid)
            /\ Sub(transporters, 1, Len(before)) = before
            /\ \A i \in 1..Len(valid) :
                   transporters[Len(before) + i][1] = FirstToken(valid[i])

C4_Witness ==
    /\ call.op = "parse"
    /\ call.file = <<LineFull, LineBadFloat>>
    /\ before = <<RecNh3>>
    /\ result.exc = "ValueError"
    /\ result.what = <<"1", ".", "2", ".", "3">>
    /\ result.line_no = 2
    /\ transporters = <<RecNh3, RecGlu>>

\* C5: while no parse has failed since the last clear() (or since
\* construction), a successful parse returns the concatenation, in call
\* order, of what a fresh instance returns for each file parsed since then.
C5_ParseAdditive ==
    (call.op = "parse" /\ clean) =>
        /\ result.exc = "none"
        /\ result.ret = Some(expected)
        /\ transporters = expected

C5_Witness ==
    /\ call.op = "parse"
    /\ clean
    /\ before # <<>>
    /\ Len(transporters) > Len(before)
    /\ result.ret = Some(expected)

\* C6: for a list whose names all hold two underscores, split_by_type returns
\* the groups in the order in which their type codes first occur in the list,
\* and each group holds the records of its type in the order of the list.
C6_SplitOrderPreserving ==
    (call.op = "split" /\ \A i \in 1..Len(pending) : WellNamed(pending[i])) =>
        /\ result.exc = "none"
        /\ LET G == result.ret[1]
               FirstSeen(g) ==
                   {i \in 1..Len(pending) :
                       TypeCode(pending[i][1]) = G[g][1][1]}
           IN  /\ \A g \in 1..Len(G) :
                      /\ G[g] # <<>>
                      /\ FirstSeen(g) # {}
                      /\ Untag(G[g])
                           = SelectSeq(pending,
                                 LAMBDA e : TypeCode(e[1]) = G[g][1][1])
               /\ \A g, h \in 1..Len(G) :
                      g < h => Min(FirstSeen(g)) < Min(FirstSeen(h))

C6_Witness ==
    /\ call.op = "split"
    /\ Len(pending) = 3
    /\ \A i \in 1..3 : WellNamed(pending[i])
    /\ TypeCode(pending[1][1]) = TypeCode(pending[3][1])
    /\ TypeCode(pending[1][1]) # TypeCode(pending[2][1])
    /\ pending[1] # pending[3]
    /\ result.ret
         = Some(<<<< <<TypeCode(pending[1][1])>> \o pending[1],
                     <<TypeCode(pending[3][1])>> \o pending[3] >>,
                  << <<TypeCode(pending[2][1])>> \o pending[2] >> >>)

\* C7: what a successful split_by_type returns is a partition of its input:
\* as many grouped records as input records, each input record as often in
\* the groups as in the input with its three fields unchanged, each grouped
\* record prefixed by the text between the first and second "_" of its name,
\* one type code per group, no type code in two groups, no empty group.
C7_SplitPartition ==
    (call.op = "split" /\ result.exc = "none") =>
        LET G == result.ret[1]
            Slots == {s \in (1..Len(G)) \X (1..Len(pending)) :
                         s[2] <= Len(G[s[1]])}
            InInput(e) == {i \in 1..Len(pending) : pending[i] = e}
            InGroups(e) == {s \in Slots : Tail(G[s[1]][s[2]]) = e}
        IN  /\ Cardinality(Slots) = Len(pending)
            /\ \A g \in 1..Len(G) : Len(G[g]) \in 1..Len(pending)
            /\ \A i \in 1..Len(pending) :
                   Cardinality(InGroups(pending[i]))
                     = Cardinality(InInput(pending[i]))
            /\ \A s \in Slots :
                   LET item == G[s[1]][s[2]]
                   IN  /\ Len(item) = 4
                       /\ Cardinality(Underscores(item[2])) >= 2
                       /\ item[1] = TypeCode(item[2])
                       /\ item[1] = G[s[1]][1][1]
            /\ \A g, h \in 1..Len(G) : g # h => G[g][1][1] # G[h][1][1]

C7_Witness ==
    /\ call.op = "split"
    /\ result.exc = "none"
    /\ Len(pending) = 3
    /\ pending[1] = pending[3]
    /\ pending[2][1] = <<"_", "X", "_", "Y", "_">>
    /\ pending[1][1] = <<"b", "_", "Y", "_", "c">>
    /\ Len(result.ret[1]) = 2
    /\ Len(result.ret[1][1]) = 2

\* C8: when some record of the input has a name with fewer than two
\* underscores, split_by_type fails with SyntaxError naming the first such
\* name of the input and returns nothing, also when records before it were
\* grouped.
C8_MalformedNameSyntaxError ==
    LET bad == {i \in 1..Len(pending) : ~WellNamed(pending[i])}
    IN  (call.op = "split" /\ bad # {}) =>
            /\ result.exc = "SyntaxError"
            /\ result.what = pending[Min(bad)][1]
            /\ result.ret = None

C8_Witness ==
    /\ call.op = "split"
    /\ Len(pending) = 3
    /\ WellNamed(pending[1])
    /\ pending[2][1] = <<"n", "o">>
    /\ pending[3][1] = <<"a", "_", "b">>
    /\ result.exc = "SyntaxError"
    /\ result.what = <<"n", "o">>

\* C9: split_by_type leaves its input unchanged, whether it returns or fails
\* and whether the list is the caller's or the instance's own: the list it
\* worked on and self.transporters are after the call what they were before.
C9_SplitLeavesInputUnchanged ==
    call.op = "split" =>
        /\ transporters = before
        /\ result.l = Some(SplitInput)

C9_Witness ==
    /\ call.op = "split"
    /\ call.l = None
    /\ result.exc = "none"
    /\ Len(before) >= 2
    /\ Len(result.ret[1]) = 2
    /\ transporters = before

\* C10: parse never fails with SyntaxError: a blank or comment line appends
\* nothing, and any other line either appends exactly one record, named by
\* the (non-empty) first whitespace-delimited token of the line, or fails
\* with ValueError and appends nothing.
C10_ParseNeverSyntaxError ==
    call.op = "parse" =>
        LET line == call.file[1]
        IN  /\ result.exc \in {"none", "ValueError"}
            /\ Skipped(line) => result.exc = "none" /\ transporters = before
            /\ (~Skipped(line) /\ result.exc = "none") =>
                   /\ Len(transporters) = Len(before) + 1
                   /\ transporters[Len(transporters)][1] = FirstToken(line)
                   /\ FirstToken(line) # <<>>
            /\ result.exc = "ValueError" => transporters = before

C10_Witness ==
    /\ call.op = "parse"
    /\ call.file = <<<<"a", " ", ")", "c", "o", "(">>>>
    /\ result.exc = "none"
    /\ transporters = <<<< <<"a">>, None, None >>>>

====
